---- MODULE Spec2Model ----
(***************************************************************************)
(* Model of v2_kathara_to_svg.py: KatharaParser (line parsing, lazy node   *)
(* and connection creation, classification) and SVGGenerator (layout      *)
(* selection and rendering).  Strings are sequences of one-character      *)
(* strings, so substring tests, prefixes, splitting and the line regex    *)
(* are computed character by character as the Python code computes them.  *)
(***************************************************************************)
EXTENDS Integers, Sequences, FiniteSets, TLC

VARIABLES lines, idx, lab_info, nodes, connections, pc, ci, calls, err, layout, svg

vars == <<lines, idx, lab_info, nodes, connections, pc, ci, calls, err, layout, svg>>

(***************************************************************************)
(* Bounds of the explored inputs.                                          *)
(***************************************************************************)
MaxLines == 3
MaxParts == 2

(***************************************************************************)
(* Characters and strings.                                                 *)
(***************************************************************************)
LowerLetters ==
    {"a","b","c","d","e","f","g","h","i","j","k","l","m",
     "n","o","p","q","r","s","t","u","v","w","x","y","z"}

UpperLetters ==
    {"A","B","C","D","E","F","G","H","I","J","K","L","M",
     "N","O","P","Q","R","S","T","U","V","W","X","Y","Z"}

Digits == {"0","1","2","3","4","5","6","7","8","9"}

UpperToLower ==
    [c \in UpperLetters |->
        CASE c = "A" -> "a" [] c = "B" -> "b" [] c = "C" -> "c" [] c = "D" -> "d"
          [] c = "E" -> "e" [] c = "F" -> "f" [] c = "G" -> "g" [] c = "H" -> "h"
          [] c = "I" -> "i" [] c = "J" -> "j" [] c = "K" -> "k" [] c = "L" -> "l"
          [] c = "M" -> "m" [] c = "N" -> "n" [] c = "O" -> "o" [] c = "P" -> "p"
          [] c = "Q" -> "q" [] c = "R" -> "r" [] c = "S" -> "s" [] c = "T" -> "t"
          [] c = "U" -> "u" [] c = "V" -> "v" [] c = "W" -> "w" [] c = "X" -> "x"
          [] c = "Y" -> "y" [] c = "Z" -> "z"]

\* str.lower()
lower(s) == [i \in 1..Len(s) |-> IF s[i] \in UpperLetters THEN UpperToLower[s[i]] ELSE s[i]]

\* str.upper()
upper(s) ==
    [i \in 1..Len(s) |->
        IF s[i] \in LowerLetters
        THEN CHOOSE u \in UpperLetters : UpperToLower[u] = s[i]
        ELSE s[i]]

\* keyword in s
Contains(kw, s) ==
    \E i \in 0..(Len(s) - Len(kw)) : SubSeq(s, i + 1, i + Len(kw)) = kw

\* any(keyword in s for keyword in kws)
AnyIn(kws, s) == \E kw \in kws : Contains(kw, s)

\* s.startswith(p)
startswith(s, p) == Len(s) >= Len(p) /\ SubSeq(s, 1, Len(p)) = p

\* s.isdigit()
isdigit(s) == Len(s) > 0 /\ \A i \in 1..Len(s) : s[i] \in Digits

Whitespace == {" "}

\* s.strip(): drop the characters of cs at both ends
StripChars(s, cs) ==
    LET keep == {i \in 1..Len(s) : s[i] \notin cs}
    IN  IF keep = {} THEN <<>>
        ELSE LET lo == CHOOSE i \in keep : \A j \in keep : i <= j
                 hi == CHOOSE i \in keep : \A j \in keep : j <= i
             IN  SubSeq(s, lo, hi)

strip(s) == StripChars(s, Whitespace)

\* Position of the first occurrence of character c in s at or after from; 0 if none
Find(s, c, from) ==
    LET hits == {i \in from..Len(s) : s[i] = c}
    IN  IF hits = {} THEN 0 ELSE CHOOSE i \in hits : \A j \in hits : i <= j

(***************************************************************************)
(* Node.classify_node: the keyword lists of the source.                    *)
(***************************************************************************)
RouterNameKeywords ==
    { <<"r","o","u","t","e","r">>, <<"r","1">>, <<"r","2">>, <<"r","3">>,
      <<"r","4">>, <<"r","5">> }

PcNameKeywords == { <<"p","c">>, <<"h","o","s","t">>, <<"c","l","i","e","n","t">> }

ServerNameKeywords ==
    { <<"s","e","r","v","e","r">>, <<"s","n","m","p">>,
      <<"m","a","n","a","g","e","r">>, <<"z","a","b","b","i","x">> }

SwitchNameKeywords == { <<"s","w","i","t","c","h">>, <<"s","w">> }

RouterImageKeywords ==
    { <<"f","r","r">>, <<"q","u","a","g","g","a">>, <<"b","i","r","d">>,
      <<"r","o","u","t","e","r">> }

PcImageKeywords ==
    { <<"a","l","p","i","n","e">>, <<"u","b","u","n","t","u">>,
      <<"d","e","b","i","a","n">> }

ServerImageKeywords == { <<"s","e","r","v","e","r">>, <<"z","a","b","b","i","x">> }

\* The server rule tried before the router rule
classify_node_server_first(name, image) ==
    LET name_lower  == lower(name)
        image_lower == lower(image)
    IN  IF AnyIn(ServerNameKeywords, name_lower) THEN "server"
        ELSE IF AnyIn(RouterNameKeywords, name_lower) THEN "router"
        ELSE IF AnyIn(PcNameKeywords, name_lower) THEN "pc"
        ELSE IF AnyIn(SwitchNameKeywords, name_lower) THEN "switch"
        ELSE IF AnyIn(RouterImageKeywords, image_lower) THEN "router"
        ELSE IF AnyIn(PcImageKeywords, image_lower) THEN "pc"
        ELSE IF AnyIn(ServerImageKeywords, image_lower) THEN "server"
        ELSE "pc"

classify_node(name, image) ==
    LET name_lower  == lower(name)
        image_lower == lower(image)
    IN  IF AnyIn(RouterNameKeywords, name_lower)
        THEN (IF AnyIn({<<"f","r","r">>, <<"q","u","a","g","g","a">>, <<"b","i","r","d">>},
                       image_lower)
              THEN "router" ELSE "router")
        ELSE IF AnyIn(PcNameKeywords, name_lower) THEN "pc"
        ELSE IF AnyIn(ServerNameKeywords, name_lower) THEN "server"
        ELSE IF AnyIn(SwitchNameKeywords, name_lower) THEN "switch"
        ELSE IF AnyIn(RouterImageKeywords, image_lower) THEN "router"
        ELSE IF AnyIn(PcImageKeywords, image_lower) THEN "pc"
        ELSE IF AnyIn(ServerImageKeywords, image_lower) THEN "server"
        ELSE "pc"

(***************************************************************************)
(* Python dicts.  lab_info, Node.interfaces and Node.properties are only   *)
(* looked up by key, so they are functions; parser.nodes and               *)
(* parser.connections are iterated, so they are sequences in insertion     *)
(* order, keyed by name / collision_domain.                                *)
(***************************************************************************)
EmptyDict == [k \in {} |-> <<>>]

DictSet(d, k, v) == [x \in (DOMAIN d) \cup {k} |-> IF x = k THEN v ELSE d[x]]

\* dict.get(k, default)
DictGet(d, k, default) == IF k \in DOMAIN d THEN d[k] ELSE default

\* Node.__init__
Node(name) ==
    [name |-> name, image |-> <<>>, interfaces |-> EmptyDict, properties |-> EmptyDict,
     pos |-> [kind |-> "origin", a |-> 0, b |-> 0, c |-> 0, d |-> 0],
     node_type |-> "unknown"]

\* An interface already declared keeps its first collision domain
add_interface_keep_first(node, interface, collision_domain) ==
    IF interface \in DOMAIN node.interfaces THEN node
    ELSE [node EXCEPT !.interfaces = DictSet(node.interfaces, interface, collision_domain)]

\* Node.add_interface
add_interface(node, interface, collision_domain) ==
    [node EXCEPT !.interfaces = DictSet(node.interfaces, interface, collision_domain)]

\* Node.add_property
add_property(node, prop, value) ==
    [node EXCEPT !.properties = DictSet(node.properties, prop, value)]

\* Connection.__init__
Connection(collision_domain) ==
    [collision_domain |-> collision_domain, nodes |-> <<>>, connection_type |-> "lan"]

\* Connection.add_node: members are (node, interface); a node is referred to by its
\* name, the key under which parser.nodes holds the one Node object of that name
add_node(connection, name, interface) ==
    [connection EXCEPT !.nodes = Append(connection.nodes, <<name, interface>>)]

\* Index in the sequence d of the entry whose field is key; 0 if absent
NodeIndex(d, name) ==
    IF \E i \in 1..Len(d) : d[i].name = name
    THEN CHOOSE i \in 1..Len(d) : d[i].name = name
    ELSE 0

ConnIndex(d, cd) ==
    IF \E i \in 1..Len(d) : d[i].collision_domain = cd
    THEN CHOOSE i \in 1..Len(d) : d[i].collision_domain = cd
    ELSE 0

NodeOf(d, name) == d[NodeIndex(d, name)]

\* KatharaParser._add_connection
_add_connection(conns, collision_domain, name, interface) ==
    LET withcd == IF ConnIndex(conns, collision_domain) = 0
                  THEN Append(conns, Connection(collision_domain))
                  ELSE conns
        k == ConnIndex(withcd, collision_domain)
    IN  [withcd EXCEPT ![k] = add_node(withcd[k], name, interface)]

\* ring for two or more router entries instead of exactly two
classify_connection_atleast(connection, nodedict) ==
    IF Len(connection.nodes) = 2
    THEN [connection EXCEPT !.connection_type = "p2p"]
    ELSE IF Len(connection.nodes) > 2
    THEN LET router_count ==
                 Cardinality({i \in 1..Len(connection.nodes) :
                     nodedict[CHOOSE n \in 1..Len(nodedict) :
                                 nodedict[n].name = connection.nodes[i][1]].node_type = "router"})
         IN  IF router_count >= 2
             THEN [connection EXCEPT !.connection_type = "ring"]
             ELSE [connection EXCEPT !.connection_type = "lan"]
    ELSE connection

\* Connection.classify_connection, given the node dictionary for member types
classify_connection(connection, nodedict) ==
    IF Len(connection.nodes) = 2
    THEN [connection EXCEPT !.connection_type = "p2p"]
    ELSE IF Len(connection.nodes) > 2
    THEN LET router_count ==
                 Cardinality({i \in 1..Len(connection.nodes) :
                     NodeOf(nodedict, connection.nodes[i][1]).node_type = "router"})
         IN  IF router_count = 2
             THEN [connection EXCEPT !.connection_type = "ring"]
             ELSE [connection EXCEPT !.connection_type = "lan"]
    ELSE connection

(***************************************************************************)
(* The line grammar of KatharaParser._parse_line.                          *)
(***************************************************************************)
LabPrefix == <<"L","A","B","_">>

WordChars == LowerLetters \cup UpperLetters \cup Digits \cup {"_"}

\* Length of the longest prefix of s made of \w characters
WordPrefixLen(s) ==
    LET stops == {i \in 1..Len(s) : s[i] \notin WordChars}
    IN  IF stops = {} THEN Len(s)
        ELSE (CHOOSE i \in stops : \A j \in stops : i <= j) - 1

NoMatch == [ok |-> FALSE, node_name |-> <<>>, property_name |-> <<>>, value |-> <<>>]

\* re.match(r'(\w+)\[([^\]]+)\]="?([^"]*)"?', line): anchored at the start only.
\* \w+ takes the longest word prefix, which "[" must follow; [^\]]+ runs to the
\* first "]" and must be non-empty; "=" must follow; an optional opening quote is
\* consumed; the value runs to the next quote or the end of the line.
ReMatch(line) ==
    LET n == WordPrefixLen(line)
    IN  IF n = 0 \/ Len(line) < n + 1 \/ line[n + 1] # "[" THEN NoMatch
        ELSE LET j == Find(line, "]", n + 2)
             IN  IF j = 0 \/ j = n + 2 THEN NoMatch
                 ELSE IF Len(line) < j + 1 \/ line[j + 1] # "=" THEN NoMatch
                 ELSE LET vstart == IF Len(line) >= j + 2 /\ line[j + 2] = "\""
                                    THEN j + 3 ELSE j + 2
                          q      == Find(line, "\"", vstart)
                          vend   == IF q = 0 THEN Len(line) ELSE q - 1
                      IN  [ok |-> TRUE,
                           node_name |-> SubSeq(line, 1, n),
                           property_name |-> SubSeq(line, n + 2, j - 1),
                           value |-> SubSeq(line, vstart, vend)]

\* key, value = line.split('=', 1) raises ValueError when line holds no '='
SplitRaises(line) == Find(line, "=", 1) = 0

SplitKey(line) == SubSeq(line, 1, Find(line, "=", 1) - 1)

SplitValue(line) == SubSeq(line, Find(line, "=", 1) + 1, Len(line))

ImageProp == <<"i","m","a","g","e">>

\* The state a parser holds: the three dictionaries, and whether an exception
\* has propagated out of parse()
ParserState(li, ns, cs, e) == [lab_info |-> li, nodes |-> ns, connections |-> cs, err |-> e]

\* The lab test made only on lines that are not node declarations
IsLabLine_after_match(line) == startswith(line, LabPrefix) /\ ~ReMatch(line).ok

\* line.startswith('LAB_'), the first test of _parse_line
IsLabLine(line) == startswith(line, LabPrefix)

\* KatharaParser._parse_line on a stripped, non-blank, non-comment line
_parse_line(st, line) ==
    IF IsLabLine(line)
    THEN IF SplitRaises(line)
         THEN [st EXCEPT !.err = "ValueError"]
         ELSE [st EXCEPT !.lab_info =
                   DictSet(st.lab_info, SplitKey(line), StripChars(SplitValue(line), {"\""}))]
    ELSE LET match == ReMatch(line)
         IN  IF ~match.ok THEN st
             ELSE LET node_name     == match.node_name
                      property_name == match.property_name
                      value         == match.value
                      ns == IF NodeIndex(st.nodes, node_name) = 0
                            THEN Append(st.nodes, Node(node_name))
                            ELSE st.nodes
                      k  == NodeIndex(ns, node_name)
                  IN  IF property_name = ImageProp
                      THEN [st EXCEPT !.nodes = [ns EXCEPT ![k].image = value]]
                      ELSE IF isdigit(property_name)
                      THEN [st EXCEPT
                              !.nodes = [ns EXCEPT ![k] = add_interface(ns[k], property_name, value)],
                              !.connections = _add_connection(st.connections, value,
                                                              node_name, property_name)]
                      ELSE [st EXCEPT
                              !.nodes = [ns EXCEPT ![k] = add_property(ns[k], property_name, value)]]

\* The loop body of parse(): strip, skip blank and comment lines, else _parse_line
Skipped(raw) == strip(raw) = <<>> \/ startswith(strip(raw), <<"#">>)

ParseStep(st, raw) == IF Skipped(raw) THEN st ELSE _parse_line(st, strip(raw))


(***************************************************************************)
(* KatharaParser._classify_nodes_and_connections: two loops in sequence.   *)
(* Position i of the classification visits, in order, every node and then  *)
(* every connection.                                                       *)
(***************************************************************************)
\* The connections visited before the nodes
ClassifyTarget_connections_first(i, nn, nc) ==
    IF i < nc THEN [what |-> "connection", k |-> i + 1]
    ELSE IF i < nc + nn THEN [what |-> "node", k |-> i + 1 - nc]
    ELSE [what |-> "return", k |-> 0]

ClassifyTarget(i, nn, nc) ==
    IF i < nn THEN [what |-> "node", k |-> i + 1]
    ELSE IF i < nn + nc THEN [what |-> "connection", k |-> i + 1 - nn]
    ELSE [what |-> "return", k |-> 0]

(***************************************************************************)
(* SVGGenerator: canvas, layout selection and the two layouts.             *)
(***************************************************************************)
Width == 1000
Height == 800
Margin == 50

Routers(ns) == SelectSeq(ns, LAMBDA n : n.node_type = "router")

OtherNodes(ns) == SelectSeq(ns, LAMBDA n : n.node_type # "router")

\* Number of entries of a member list whose node is router-typed
RouterEntries(connection, ns) ==
    Cardinality({i \in 1..Len(connection.nodes) :
                    NodeOf(ns, connection.nodes[i][1]).node_type = "router"})

\* More ring connections than routers required
_has_ring_topology_strict(routers, conns, ns) ==
    IF Len(routers) < 3 THEN FALSE
    ELSE LET ring_connections ==
                 Cardinality({k \in 1..Len(conns) : RouterEntries(conns[k], ns) = 2})
         IN  ring_connections > Len(routers)

\* SVGGenerator._has_ring_topology
_has_ring_topology(routers, conns, ns) ==
    IF Len(routers) < 3 THEN FALSE
    ELSE LET ring_connections ==
                 Cardinality({k \in 1..Len(conns) : RouterEntries(conns[k], ns) = 2})
         IN  ring_connections >= Len(routers)

\* math.ceil(math.sqrt(n)) for a count n
CeilSqrt(n) == CHOOSE c \in 0..n : c * c >= n /\ \A b \in 0..n : b * b >= n => c <= b

\* math.ceil(n / cols), cols > 0
CeilDiv(n, cols) == (n + cols - 1) \div cols

\* The row count computed before the loop, for any n
GridRaises_hoisted(n) == CeilSqrt(n) = 0

\* _layout_hierarchical divides by cols for each node it places: with n nodes
\* to place, ZeroDivisionError is raised iff the loop runs and cols is 0
GridRaises(n) == n > 0 /\ CeilSqrt(n) = 0

\* Position of the i-th (0-based) of n nodes in the grid, as exact fractions
\* x = a / b and y = c / d
GridPos(i, n) ==
    LET cols == CeilSqrt(n)
        rows == CeilDiv(n, cols)
        row  == i \div cols
        col  == i % cols
    IN  [kind |-> "grid",
         a |-> 2 * cols * Margin + (Width - 2 * Margin) * (2 * col + 1),
         b |-> 2 * cols,
         c |-> 2 * rows * (Margin + 100) + (Height - 2 * Margin - 200) * (2 * row + 1),
         d |-> 2 * rows]

_layout_hierarchical(ns) ==
    LET all_nodes == Routers(ns) \o OtherNodes(ns)
    IN  [k \in 1..Len(ns) |->
            LET i == (CHOOSE j \in 1..Len(all_nodes) : all_nodes[j].name = ns[k].name) - 1
            IN  [ns[k] EXCEPT !.pos = GridPos(i, Len(all_nodes))]]

Min(x, y) == IF x <= y THEN x ELSE y

\* ring_radius = min(width, height) * 0.25
RingRadius == Min(Width, Height) \div 4

InMembers(name, connection) ==
    \E i \in 1..Len(connection.nodes) : connection.nodes[i][1] = name

\* SVGGenerator._find_connected_router: index in routers of the first router (in
\* router order) found in the first connection (in connection order) that holds
\* the node and some router; 0 for None
_find_connected_router(name, routers, conns) ==
    LET good == {k \in 1..Len(conns) :
                    /\ InMembers(name, conns[k])
                    /\ \E r \in 1..Len(routers) : InMembers(routers[r].name, conns[k])}
    IN  IF good = {} THEN 0
        ELSE LET k == CHOOSE x \in good : \A y \in good : x <= y
                 rs == {r \in 1..Len(routers) : InMembers(routers[r].name, conns[k])}
             IN  CHOOSE r \in rs : \A q \in rs : r <= q

\* SVGGenerator._layout_ring_topology.  A router sits at angle 2*pi*a/b - pi/2 on
\* the circle of radius c; a node attached to such a router sits on the same ray
\* at radius c (= ring_radius + 100); an unattached node at x = a, y = c.
_layout_ring_topology(ns, conns) ==
    LET routers == Routers(ns)
        others  == OtherNodes(ns)
    IN  [k \in 1..Len(ns) |->
            IF ns[k].node_type = "router"
            THEN LET i == (CHOOSE j \in 1..Len(routers) : routers[j].name = ns[k].name) - 1
                 IN  [ns[k] EXCEPT !.pos = [kind |-> "ring", a |-> i, b |-> Len(routers),
                                            c |-> RingRadius, d |-> 0]]
            ELSE LET r == _find_connected_router(ns[k].name, routers, conns)
                     o == (CHOOSE j \in 1..Len(others) : others[j].name = ns[k].name) - 1
                 IN  IF r # 0
                     THEN [ns[k] EXCEPT !.pos = [kind |-> "spoke", a |-> r - 1,
                                                 b |-> Len(routers),
                                                 c |-> RingRadius + 100, d |-> 0]]
                     ELSE [ns[k] EXCEPT !.pos = [kind |-> "fallback",
                                                 a |-> Width \div 2 + (Len(others) - o) * 50,
                                                 b |-> 1,
                                                 c |-> Height \div 2 + 200, d |-> 1]]]

\* SVGGenerator._layout_nodes: which layout is run
_layout_nodes(ns, conns) ==
    IF _has_ring_topology(Routers(ns), conns, ns) THEN "ring" ELSE "grid"


(***************************************************************************)
(* The SVG document, as the sequence of the elements written.  An element  *)
(* has its tag, the text taken from the input that it carries (chars), the *)
(* literal text or colour of the source (lit), its style attribute and the *)
(* names of the nodes whose positions it is drawn at.                      *)
(***************************************************************************)
El(tag, chars, lit, style, at) ==
    [tag |-> tag, chars |-> chars, lit |-> lit, style |-> style, at |-> at]

\* Concatenation of a sequence of sequences
RECURSIVE Flatten(_)
Flatten(ss) == IF ss = <<>> THEN <<>> ELSE Head(ss) \o Flatten(Tail(ss))

_create_svg_header ==
    << El("svg", <<>>, "open", "", <<>>),
       El("comment", <<>>, "Background", "", <<>>),
       El("rect", <<>>, "#f8f9fa", "", <<>>) >>

_create_svg_footer == << El("svg", <<>>, "close", "", <<>>) >>

LabNameKey == <<"L","A","B","_","N","A","M","E">>
LabDescKey == <<"L","A","B","_","D","E","S","C","R","I","P","T","I","O","N">>
DefaultLabName == <<"K","a","t","h","a","r","a"," ","N","e","t","w","o","r","k">>
DefaultLabDesc == <<"N","e","t","w","o","r","k"," ","T","o","p","o","l","o","g","y">>

_create_title(li) ==
    LET lab_name == DictGet(li, LabNameKey, DefaultLabName)
        lab_desc == DictGet(li, LabDescKey, DefaultLabDesc)
    IN  << El("comment", <<>>, "Title", "", <<>>),
           El("text", lab_name, "title", "", <<>>),
           El("text", lab_desc, "subtitle", "", <<>>) >>

_get_connection_color(connection) ==
    IF connection.connection_type = "ring" THEN "#2196F3"
    ELSE IF connection.connection_type = "p2p" THEN "#4CAF50"
    ELSE "#FF5722"

_get_connection_style(connection, ns) ==
    IF \E i \in 1..Len(connection.nodes) :
           NodeOf(ns, connection.nodes[i][1]).node_type = "pc"
    THEN "stroke-dasharray" ELSE ""

\* The hub drawn for every connection that has not exactly two members
DrawConnection_hub_else(connection, ns) ==
    IF Len(connection.nodes) = 2
    THEN << El("line", connection.collision_domain, _get_connection_color(connection),
               _get_connection_style(connection, ns),
               <<connection.nodes[1][1], connection.nodes[2][1]>>),
            El("text", connection.collision_domain, "label", "",
               <<connection.nodes[1][1], connection.nodes[2][1]>>) >>
    ELSE LET members == [i \in 1..Len(connection.nodes) |-> connection.nodes[i][1]]
         IN  << El("circle", connection.collision_domain, "#FFC107", "", members) >>
             \o [i \in 1..Len(connection.nodes) |->
                    El("line", connection.collision_domain,
                       _get_connection_color(connection), "", <<members[i]>>)]
             \o << El("text", connection.collision_domain, "label", "", members) >>

\* The body of the loop of SVGGenerator._draw_connections
DrawConnection(connection, ns) ==
    IF Len(connection.nodes) = 2
    THEN << El("line", connection.collision_domain, _get_connection_color(connection),
               _get_connection_style(connection, ns),
               <<connection.nodes[1][1], connection.nodes[2][1]>>),
            El("text", connection.collision_domain, "label", "",
               <<connection.nodes[1][1], connection.nodes[2][1]>>) >>
    ELSE IF Len(connection.nodes) > 2
    THEN LET members == [i \in 1..Len(connection.nodes) |-> connection.nodes[i][1]]
         IN  << El("circle", connection.collision_domain, "#FFC107", "", members) >>
             \o [i \in 1..Len(connection.nodes) |->
                    El("line", connection.collision_domain,
                       _get_connection_color(connection), "", <<members[i]>>)]
             \o << El("text", connection.collision_domain, "label", "", members) >>
    ELSE <<>>

_draw_connections(conns, ns) ==
    << El("comment", <<>>, "Connections", "", <<>>) >>
    \o Flatten([k \in 1..Len(conns) |-> DrawConnection(conns[k], ns)])

_draw_router(node) ==
    << El("comment", node.name, "node", "", <<node.name>>),
       El("circle", node.name, "#FF9800", "", <<node.name>>),
       El("text", upper(node.name), "name", "", <<node.name>>),
       El("text", <<>>, "Router", "", <<node.name>>) >>

_draw_pc(node) ==
    << El("comment", node.name, "node", "", <<node.name>>),
       El("rect", node.name, "#607D8B", "", <<node.name>>),
       El("text", upper(node.name), "name", "", <<node.name>>),
       El("text", <<>>, "PC", "", <<node.name>>) >>

BridgedProp == <<"b","r","i","d","g","e","d">>

_draw_server(node) ==
    LET bridged_info == IF BridgedProp \in DOMAIN node.properties THEN " (Bridged)" ELSE ""
    IN  << El("comment", node.name, "node", "", <<node.name>>),
           El("rect", node.name, "#9C27B0", "", <<node.name>>),
           El("text", upper(node.name), "name", "", <<node.name>>),
           El("text", <<>>, "Server" \o bridged_info, "", <<node.name>>) >>

_draw_single_node(node) ==
    IF node.node_type = "router" THEN _draw_router(node)
    ELSE IF node.node_type = "server" THEN _draw_server(node)
    ELSE _draw_pc(node)

_draw_nodes(ns) ==
    << El("comment", <<>>, "Nodes", "", <<>>) >>
    \o Flatten([k \in 1..Len(ns) |-> _draw_single_node(ns[k])])

_create_legend ==
    << El("comment", <<>>, "Legend", "", <<>>),
       El("g", <<>>, "open", "", <<>>),
       El("text", <<>>, "Legend:", "", <<>>),
       El("comment", <<>>, "Router legend", "", <<>>),
       El("circle", <<>>, "#FF9800", "", <<>>),
       El("text", <<>>, "Router", "", <<>>),
       El("comment", <<>>, "PC legend", "", <<>>),
       El("rect", <<>>, "#607D8B", "", <<>>),
       El("text", <<>>, "PC/Host", "", <<>>),
       El("comment", <<>>, "Server legend", "", <<>>),
       El("rect", <<>>, "#9C27B0", "", <<>>),
       El("text", <<>>, "Server", "", <<>>),
       El("comment", <<>>, "Ring connection legend", "", <<>>),
       El("line", <<>>, "#2196F3", "", <<>>),
       El("text", <<>>, "Ring Connection", "", <<>>),
       El("comment", <<>>, "P2P connection legend", "", <<>>),
       El("line", <<>>, "#4CAF50", "stroke-dasharray", <<>>),
       El("text", <<>>, "LAN Connection", "", <<>>),
       El("comment", <<>>, "Hub legend", "", <<>>),
       El("circle", <<>>, "#FFC107", "", <<>>),
       El("text", <<>>, "Network Hub", "", <<>>),
       El("g", <<>>, "close", "", <<>>) >>

\* SVGGenerator.generate, after _layout_nodes
Document(li, ns, conns) ==
    _create_svg_header
    \o _create_title(li)
    \o _draw_connections(conns, ns)
    \o _draw_nodes(ns)
    \o _create_legend
    \o _create_svg_footer


(***************************************************************************)
(* Inputs: the lines of the lab.conf file handed to KatharaParser.parse.   *)
(***************************************************************************)
\* Node declarations that short files are made of: interface declarations
\* (quoted and unquoted, with a leading blank, redeclared, two interfaces of a
\* node on one collision domain), property and image declarations and their
\* redeclarations
NodeLines ==
    {<<"r","1","[","0","]","=","\"","a","\"">>,
      <<"r","2","[","0","]","=","\"","a","\"">>,
      <<"p","c","1","[","0","]","=","\"","a","\"">>,
      <<"r","1","[","0","]","=","\"","b","\"">>,
      <<" ","r","1","[","1","]","=","a">>,
      <<"s","e","r","v","e","r","1","[","b","r","i","d","g","e","d","]","=","\"","t","r","u","e","\"">>,
      <<"s","e","r","v","e","r","1","[","b","r","i","d","g","e","d","]","=","\"","\"">>,
      <<"A","[","i","m","a","g","e","]","=","\"","f","r","r","\"">>,
      <<"A","[","i","m","a","g","e","]","=","z","a","b","b","i","x">> }

\* Other lines: lab metadata, a lab-prefixed line without "=", a comment, a
\* blank line, a line of neither form, and a lab-prefixed node declaration
OtherLines ==
    {<<"L","A","B","_","N","A","M","E","=","\"","x","\"">>,
      <<"L","A","B","_","x">>,
      <<"#","r","1","[","0","]","=","\"","a","\"">>,
      <<" ">>,
      <<"r","1","[","0","]">>,
      <<"L","A","B","_","n","[","0","]","=","\"","a","\"">> }

LinePool == NodeLines \cup OtherLines

\* A ring of three routers over three point-to-point collision domains,
\* followed by a fourth, unconnected router
RingFile ==
    <<
       <<"r","1","[","0","]","=","\"","a","\"">>,
       <<"r","2","[","0","]","=","\"","a","\"">>,
       <<"r","2","[","1","]","=","\"","b","\"">>,
       <<"r","3","[","0","]","=","\"","b","\"">>,
       <<"r","3","[","1","]","=","\"","c","\"">>,
       <<"r","1","[","1","]","=","\"","c","\"">>,
       <<"r","4","[","0","]","=","\"","d","\"">> >>

\* Three keyword-free nodes in a chain
ChainFile ==
    <<
       <<"A","[","0","]","=","\"","c","d","A","\"">>,
       <<"B","[","0","]","=","\"","c","d","A","\"">>,
       <<"B","[","1","]","=","\"","c","d","B","\"">>,
       <<"C","[","0","]","=","\"","c","d","B","\"">> >>

\* Three routers, a shared segment with a pc, a doubly attached router and an
\* unattached host
HubFile ==
    <<
       <<"r","1","[","0","]","=","\"","a","\"">>,
       <<"r","2","[","0","]","=","\"","a","\"">>,
       <<"r","3","[","0","]","=","\"","b","\"">>,
       <<"r","3","[","1","]","=","\"","b","\"">>,
       <<"p","c","1","[","0","]","=","\"","a","\"">>,
       <<"r","3","[","2","]","=","\"","c","\"">>,
       <<"r","1","[","1","]","=","\"","c","\"">>,
       <<"h","o","s","t","[","9","]","=","\"","z","\"">> >>

Files == {RingFile, ChainFile, HubFile}

\* Name fragments and images for single-node files
Fragments ==
    { <<"r">>, <<"1">>, <<"p","c">>, <<"s","e","r","v","e","r">>, <<"s","w">>, <<"R">>, <<"s","n","m","p">> }

Images ==
    { <<>>, <<"f","r","r">>, <<"z","a","b","b","i","x">>, <<"R","o","u","t","e","r">> }

RECURSIVE NamesUpTo(_)
NamesUpTo(n) ==
    IF n = 0 THEN {<<>>}
    ELSE NamesUpTo(n - 1) \cup {p \o f : p \in NamesUpTo(n - 1), f \in Fragments}

Names == NamesUpTo(MaxParts) \ {<<>>}

\* name[image]="image" followed by name[0]="a"
NodeFile(name, image) ==
    << name \o <<"[">> \o ImageProp \o <<"]","=","\"">> \o image \o <<"\"">>,
       name \o <<"[","0","]","=","\"","a","\"">> >>

RECURSIVE SeqsUpTo(_, _)
SeqsUpTo(S, n) ==
    IF n = 0 THEN {<<>>}
    ELSE SeqsUpTo(S, n - 1) \cup {Append(p, x) : p \in SeqsUpTo(S, n - 1), x \in S}

Inputs ==
    SeqsUpTo(NodeLines, MaxLines)
    \cup SeqsUpTo(LinePool, MaxLines - 1)
    \cup UNION {{SubSeq(f, 1, n) : n \in 0..Len(f)} : f \in Files}
    \cup {NodeFile(name, image) : name \in Names, image \in Images}

(***************************************************************************)
(* The program: main() constructs the parser, calls parse() and then       *)
(* generate().  parse() is followed line by line and classification item   *)
(* by item; generate() is one step.                                        *)
(***************************************************************************)
Init ==
    /\ lines \in Inputs
    /\ idx = 0
    /\ lab_info = EmptyDict
    /\ nodes = <<>>
    /\ connections = <<>>
    /\ pc = "parse"
    /\ ci = 0
    /\ calls = 0
    /\ err = "none"
    /\ layout = "none"
    /\ svg = <<>>

\* One iteration of the loop over the lines in parse()
ReadLine ==
    /\ pc = "parse"
    /\ idx < Len(lines)
    /\ LET st == ParseStep(ParserState(lab_info, nodes, connections, err), lines[idx + 1])
       IN  /\ lab_info' = st.lab_info
           /\ nodes' = st.nodes
           /\ connections' = st.connections
           /\ err' = st.err
           /\ pc' = IF st.err = "none" THEN "parse" ELSE "raised"
           /\ idx' = IF st.err = "none" THEN idx + 1 ELSE idx
    /\ UNCHANGED <<lines, ci, calls, layout, svg>>

\* The loop is over: parse() calls _classify_nodes_and_connections
CallClassify ==
    /\ pc = "parse"
    /\ idx = Len(lines)
    /\ pc' = "classify"
    /\ calls' = calls + 1
    /\ ci' = 0
    /\ UNCHANGED <<lines, idx, lab_info, nodes, connections, err, layout, svg>>

ClassifyNode ==
    /\ pc = "classify"
    /\ ClassifyTarget(ci, Len(nodes), Len(connections)).what = "node"
    /\ LET k == ClassifyTarget(ci, Len(nodes), Len(connections)).k
       IN  nodes' = [nodes EXCEPT ![k].node_type = classify_node(nodes[k].name, nodes[k].image)]
    /\ ci' = ci + 1
    /\ UNCHANGED <<lines, idx, lab_info, connections, pc, calls, err, layout, svg>>

ClassifyConnection ==
    /\ pc = "classify"
    /\ ClassifyTarget(ci, Len(nodes), Len(connections)).what = "connection"
    /\ LET k == ClassifyTarget(ci, Len(nodes), Len(connections)).k
       IN  connections' = [connections EXCEPT ![k] = classify_connection(connections[k], nodes)]
    /\ ci' = ci + 1
    /\ UNCHANGED <<lines, idx, lab_info, nodes, pc, calls, err, layout, svg>>

\* Both loops are over: parse() returns
Return ==
    /\ pc = "classify"
    /\ ClassifyTarget(ci, Len(nodes), Len(connections)).what = "return"
    /\ pc' = "returned"
    /\ UNCHANGED <<lines, idx, lab_info, nodes, connections, ci, calls, err, layout, svg>>

\* SVGGenerator.generate: lay the nodes out, then write the document
Generate ==
    /\ pc = "returned"
    /\ LET kind == _layout_nodes(nodes, connections)
       IN  IF kind = "grid" /\ GridRaises(Len(nodes))
           THEN /\ pc' = "raised"
                /\ err' = "ZeroDivisionError"
                /\ layout' = kind
                /\ UNCHANGED <<nodes, svg>>
           ELSE LET placed == IF kind = "ring"
                              THEN _layout_ring_topology(nodes, connections)
                              ELSE _layout_hierarchical(nodes)
                IN  /\ nodes' = placed
                    /\ layout' = kind
                    /\ svg' = Document(lab_info, placed, connections)
                    /\ pc' = "generated"
                    /\ err' = err
    /\ UNCHANGED <<lines, idx, lab_info, connections, ci, calls>>

Next ==
    \/ ReadLine
    \/ CallClassify
    \/ ClassifyNode
    \/ ClassifyConnection
    \/ Return
    \/ Generate

Spec == Init /\ [][Next]_vars


(***************************************************************************)
(* parse() as a function of the file: the loop over the lines, stopped by  *)
(* an exception, followed by the classification of every node and then of  *)
(* every connection.                                                       *)
(***************************************************************************)
RECURSIVE ParseAll(_, _)
ParseAll(st, ls) ==
    IF ls = <<>> \/ st.err # "none" THEN st
    ELSE ParseAll(ParseStep(st, Head(ls)), Tail(ls))

ClassifyAll(st) ==
    LET ns == [k \in 1..Len(st.nodes) |->
                  [st.nodes[k] EXCEPT !.node_type =
                      classify_node(st.nodes[k].name, st.nodes[k].image)]]
        cs == [k \in 1..Len(st.connections) |-> classify_connection(st.connections[k], ns)]
    IN  [st EXCEPT !.nodes = ns, !.connections = cs]

ParseFile(ls) ==
    LET st == ParseAll(ParserState(EmptyDict, <<>>, <<>>, "none"), ls)
    IN  IF st.err # "none" THEN st ELSE ClassifyAll(st)

(***************************************************************************)
(* Properties.                                                             *)
(***************************************************************************)
\* parse() has returned (generate() may have run after it)
Parsed == pc \in {"returned", "generated"}

\* The line about to be handed to _parse_line, if any
AtLine == pc = "parse" /\ idx < Len(lines) /\ ~Skipped(lines[idx + 1])

CurLine == strip(lines[idx + 1])

\* The lab-metadata form KEY=VALUE with KEY starting with the lab prefix
LabForm(line) == startswith(line, LabPrefix) /\ Find(line, "=", 1) # 0

\* C1: parsing is lenient. Whatever non-blank, non-comment line is handed to
\* _parse_line (a LAB_ line without "=" and a line not of the form
\* NODE[PROPERTY]=VALUE included), no error is raised, and a line of neither the
\* lab-metadata form nor the node-property form leaves lab_info, nodes and
\* connections unchanged.
C1_LenientParsing ==
    [][AtLine =>
          /\ pc' # "raised"
          /\ err' = "none"
          /\ (~LabForm(CurLine) /\ ~ReMatch(CurLine).ok)
                => UNCHANGED <<lab_info, nodes, connections>>]_vars

Server1 == <<"s","e","r","v","e","r","1">>
TrueValue == <<"t","r","u","e">>

\* C2: a node named server1 carrying bridged="true" is classified server, and is
\* drawn by the server visual with the caption "Server (Bridged)".
C2_Server1Bridged ==
    \A k \in 1..Len(nodes) :
        (/\ nodes[k].name = Server1
         /\ BridgedProp \in DOMAIN nodes[k].properties
         /\ nodes[k].properties[BridgedProp] = TrueValue)
        => /\ Parsed => nodes[k].node_type = "server"
           /\ pc = "generated" =>
                 /\ \E e \in 1..Len(svg) :
                       svg[e] = El("rect", Server1, "#9C27B0", "", <<Server1>>)
                 /\ \E e \in 1..Len(svg) :
                       svg[e] = El("text", <<>>, "Server (Bridged)", "", <<Server1>>)

\* The cascade of C3 as stated, over lower-cased name and image, with the
\* switch rule given the keyword set sw
Cascade(name, image, sw) ==
    LET n == lower(name)
        i == lower(image)
    IN  CASE AnyIn(RouterNameKeywords, n) -> "router"
          [] ~AnyIn(RouterNameKeywords, n) /\ AnyIn(PcNameKeywords, n) -> "pc"
          [] ~AnyIn(RouterNameKeywords \cup PcNameKeywords, n)
             /\ AnyIn(ServerNameKeywords, n) -> "server"
          [] ~AnyIn(RouterNameKeywords \cup PcNameKeywords \cup ServerNameKeywords, n)
             /\ AnyIn(sw, n) -> "switch"
          [] OTHER ->
                CASE AnyIn(RouterImageKeywords, i) -> "router"
                  [] ~AnyIn(RouterImageKeywords, i) /\ AnyIn(PcImageKeywords, i) -> "pc"
                  [] ~AnyIn(RouterImageKeywords \cup PcImageKeywords, i)
                     /\ AnyIn(ServerImageKeywords, i) -> "server"
                  [] OTHER -> "pc"

\* Some name rule of the cascade matches
NameRuleMatches(name, sw) ==
    AnyIn(RouterNameKeywords \cup PcNameKeywords \cup ServerNameKeywords \cup sw, lower(name))

CascadeHolds(sw) ==
    Parsed =>
        \A k \in 1..Len(nodes) :
            /\ nodes[k].node_type = Cascade(nodes[k].name, nodes[k].image, sw)
            /\ nodes[k].node_type # "unknown"
            /\ NameRuleMatches(nodes[k].name, sw) =>
                  \A image \in Images \cup PcImageKeywords :
                      classify_node(nodes[k].name, image) = nodes[k].node_type

\* C3 as stated: the switch rule matches the one keyword "switch".
C3_CascadeAsStated == CascadeHolds({<<"s","w","i","t","c","h">>})

\* C3 (amended): classify_node is the first-matching-rule-wins cascade router
\* name keyword, pc name keyword, server name keyword, switch name keyword
\* ("switch" or "sw"), then image inference; the image is consulted only when no
\* name rule matches; the result is never unknown.
C3_Cascade == CascadeHolds({<<"s","w","i","t","c","h">>, <<"s","w">>})

\* A node whose name holds "sw" but not "switch" and no earlier keyword, with a
\* routing image, has been classified
C3_Witness ==
    /\ Parsed
    /\ \E k \in 1..Len(nodes) :
          /\ Contains(<<"s","w">>, lower(nodes[k].name))
          /\ ~Contains(<<"s","w","i","t","c","h">>, lower(nodes[k].name))
          /\ AnyIn(RouterImageKeywords, lower(nodes[k].image))
          /\ nodes[k].node_type = "switch"

\* C4: a connection's type is a function of its member count and member types:
\* 2 members -> p2p; more than 2 -> ring if exactly 2 member entries are
\* router-typed, lan otherwise; fewer than 2 -> the default lan.
C4_ConnectionTypes ==
    Parsed =>
        \A k \in 1..Len(connections) :
            LET members == connections[k].nodes
                routers == {i \in 1..Len(members) :
                               \E n \in 1..Len(nodes) :
                                   /\ nodes[n].name = members[i][1]
                                   /\ nodes[n].node_type = "router"}
            IN  connections[k].connection_type =
                    CASE Len(members) = 2 -> "p2p"
                      [] Len(members) > 2 /\ Cardinality(routers) = 2 -> "ring"
                      [] Len(members) > 2 /\ Cardinality(routers) # 2 -> "lan"
                      [] Len(members) < 2 -> "lan"

\* A parsed file with a ring hub, a lan hub or single-member domain, and a p2p link
C4_Witness ==
    /\ Parsed
    /\ \E k \in 1..Len(connections) :
          Len(connections[k].nodes) > 2 /\ connections[k].connection_type = "ring"
    /\ \E k \in 1..Len(connections) :
          Len(connections[k].nodes) < 2 /\ connections[k].connection_type = "lan"
    /\ \E k \in 1..Len(connections) :
          Len(connections[k].nodes) = 2 /\ connections[k].connection_type = "p2p"


\* The lines consumed so far by the loop of parse(), stripped, comments and
\* blank lines left out
Consumed == SelectSeq([i \in 1..idx |-> strip(lines[i])], LAMBDA l : ~Skipped(l))

\* A line of the form NODE[PROPERTY]=VALUE: a word, a bracketed non-empty
\* property, "="
NodeForm(line) == ReMatch(line).ok

\* Its NODE token: what precedes the first "["
NodeToken(line) == SubSeq(line, 1, Find(line, "[", 1) - 1)

NodeNames == {nodes[k].name : k \in 1..Len(nodes)}

\* No node is removed or renamed by a step, and nodes stay keyed by distinct names
NodesKept ==
    /\ Len(nodes') >= Len(nodes)
    /\ \A k \in 1..Len(nodes) : nodes'[k].name = nodes[k].name

\* C5 as stated: the node mapping has one entry per distinct NODE token of the
\* consumed NODE[PROPERTY]=VALUE lines, names beginning with LAB_ included; a
\* node is created by the first line naming it, whatever the property; no node
\* is ever removed.
C5_NodeCountAsStated ==
    /\ [](/\ Cardinality(NodeNames) = Len(nodes)
          /\ LET seen == Consumed
             IN  NodeNames = {NodeToken(seen[i]) :
                                 i \in {j \in 1..Len(seen) : NodeForm(seen[j])}})
    /\ [][NodesKept]_vars

\* C5 (amended): the node mapping has one entry per distinct NODE token of the
\* consumed NODE[PROPERTY]=VALUE lines that do not begin with the lab prefix
\* LAB_ (such a line is lab metadata and creates no node); a node is created by
\* the first such line naming it, whatever the property; no node is ever removed.
C5_NodeCount ==
    /\ [](/\ Cardinality(NodeNames) = Len(nodes)
          /\ LET seen == Consumed
             IN  NodeNames = {NodeToken(seen[i]) :
                                 i \in {j \in 1..Len(seen) :
                                           /\ NodeForm(seen[j])
                                           /\ ~startswith(seen[j], LabPrefix)}})
    /\ [][NodesKept]_vars

\* A lab-prefixed node declaration has been consumed, and so has a property
\* declaration that created its node
C5_Witness ==
    /\ LET seen == Consumed
       IN  \E i \in 1..Len(seen) : NodeForm(seen[i]) /\ startswith(seen[i], LabPrefix)
    /\ \E k \in 1..Len(nodes) :
          nodes[k].interfaces = EmptyDict /\ nodes[k].properties # EmptyDict

\* The router-typed nodes and the connections with exactly two router-typed
\* member entries
RouterSet == {k \in 1..Len(nodes) : nodes[k].node_type = "router"}

RouterPairConnections ==
    {k \in 1..Len(connections) :
        Cardinality({i \in 1..Len(connections[k].nodes) :
            \E r \in RouterSet : nodes[r].name = connections[k].nodes[i][1]}) = 2}

RingInput == SubSeq(RingFile, 1, 6)

\* C6: the ring layout is run iff there are at least 3 router-typed nodes and at
\* least as many connections with exactly 2 router-typed member entries as
\* routers; otherwise the grid layout is run. r1, r2, r3 joined pairwise by three
\* 2-member collision domains are all routers and get the ring layout.
C6_RingDetection ==
    pc = "generated" =>
        /\ layout = "ring" <=>
              (Cardinality(RouterSet) >= 3
               /\ Cardinality(RouterPairConnections) >= Cardinality(RouterSet))
        /\ layout # "ring" => layout = "grid"
        /\ \A k \in 1..Len(nodes) :
              /\ layout = "grid" => nodes[k].pos.kind = "grid"
              /\ (layout = "ring" /\ k \in RouterSet) => nodes[k].pos.kind = "ring"
              /\ (layout = "ring" /\ k \notin RouterSet) =>
                    nodes[k].pos.kind \in {"spoke", "fallback"}
        /\ lines = RingInput =>
              /\ Len(nodes) = 3
              /\ RouterSet = {1, 2, 3}
              /\ Cardinality(RouterPairConnections) = 3
              /\ layout = "ring"

\* The three-router ring has been laid out
C6_Witness ==
    /\ pc = "generated"
    /\ lines = RingInput
    /\ layout = "ring"

\* Positions of the layer comments in the document
LayerStart(name) ==
    {e \in 1..Len(svg) : svg[e].tag = "comment" /\ svg[e].lit = name /\ svg[e].chars = <<>>}

\* Elements of the document strictly between two positions
Between(lo, hi) == {e \in 1..Len(svg) : lo < e /\ e < hi}

\* C7: the connections layer precedes the nodes layer. In the connections layer
\* a 2-member connection has exactly one line, a k-member connection (k > 2)
\* one hub marker and k lines, a connection of fewer than 2 members nothing.
\* The nodes layer has exactly one shape per node, a circle for a router and a
\* rectangle otherwise. The chain A-B-C has three pc nodes, two p2p
\* connections, 2 connection lines and 3 rectangles.
C7_Rendering ==
    pc = "generated" =>
        /\ Cardinality(LayerStart("Connections")) = 1
        /\ Cardinality(LayerStart("Nodes")) = 1
        /\ Cardinality(LayerStart("Legend")) = 1
        /\ LET c == CHOOSE e \in LayerStart("Connections") : TRUE
               n == CHOOSE e \in LayerStart("Nodes") : TRUE
               g == CHOOSE e \in LayerStart("Legend") : TRUE
               conn_layer == Between(c, n)
               node_layer == Between(n, g)
               Lines(cd)  == {e \in conn_layer : svg[e].tag = "line" /\ svg[e].chars = cd}
               Hubs(cd)   == {e \in conn_layer : svg[e].tag = "circle" /\ svg[e].chars = cd}
               Shapes     == {e \in node_layer : svg[e].tag \in {"circle", "rect", "line"}}
           IN  /\ c < n /\ n < g
               /\ \A k \in 1..Len(connections) :
                     LET cd == connections[k].collision_domain
                         m  == Len(connections[k].nodes)
                     IN  /\ m = 2 => Cardinality(Lines(cd)) = 1 /\ Hubs(cd) = {}
                         /\ m > 2 => Cardinality(Lines(cd)) = m /\ Cardinality(Hubs(cd)) = 1
                         /\ m < 2 => Lines(cd) = {} /\ Hubs(cd) = {}
               /\ \A e \in conn_layer :
                     \E k \in 1..Len(connections) :
                         /\ svg[e].chars = connections[k].collision_domain
                         /\ Len(connections[k].nodes) >= 2
               /\ Cardinality(Shapes) = Len(nodes)
               /\ \A k \in 1..Len(nodes) :
                     \E e \in Shapes :
                         /\ svg[e].at = <<nodes[k].name>>
                         /\ svg[e].tag =
                               IF nodes[k].node_type = "router" THEN "circle" ELSE "rect"
               /\ lines = ChainFile =>
                     /\ Len(nodes) = 3
                     /\ \A k \in 1..3 : nodes[k].node_type = "pc"
                     /\ Len(connections) = 2
                     /\ \A k \in 1..2 : connections[k].connection_type = "p2p"
                     /\ Cardinality({e \in conn_layer : svg[e].tag = "line"}) = 2
                     /\ Cardinality({e \in node_layer : svg[e].tag = "rect"}) = 3

\* A document has been written for a graph with a hub, a point-to-point link and
\* a single-member collision domain
C7_Witness ==
    /\ pc = "generated"
    /\ \E k \in 1..Len(connections) : Len(connections[k].nodes) > 2
    /\ \E k \in 1..Len(connections) : Len(connections[k].nodes) = 2
    /\ \E k \in 1..Len(connections) : Len(connections[k].nodes) = 1
    /\ \E k \in 1..Len(nodes) : nodes[k].node_type = "router"
    /\ \E k \in 1..Len(nodes) : nodes[k].node_type # "router"


\* A node-property line as _parse_line takes it: not skipped, not lab metadata,
\* matching the node regex
IsNodeDecl(raw) ==
    /\ ~Skipped(raw)
    /\ ~startswith(strip(raw), LabPrefix)
    /\ ReMatch(strip(raw)).ok

Decl(raw) == ReMatch(strip(raw))

\* The collision domain a declaration joins, if it declares an interface
Joined(raw) == IF isdigit(Decl(raw).property_name) THEN {Decl(raw).value} ELSE {}

\* Lines k and k+1 are node-property lines with different (node, property) keys
\* that do not join the same collision domain
Swappable(ls, k) ==
    /\ k \in 1..(Len(ls) - 1)
    /\ IsNodeDecl(ls[k]) /\ IsNodeDecl(ls[k + 1])
    /\ <<Decl(ls[k]).node_name, Decl(ls[k]).property_name>>
         # <<Decl(ls[k + 1]).node_name, Decl(ls[k + 1]).property_name>>
    /\ Joined(ls[k]) \cap Joined(ls[k + 1]) = {}

Swap(ls, k) ==
    [i \in 1..Len(ls) |-> IF i = k THEN ls[k + 1] ELSE IF i = k + 1 THEN ls[k] ELSE ls[i]]

NodeView(ns) ==
    {[name |-> ns[k].name, image |-> ns[k].image, interfaces |-> ns[k].interfaces,
      properties |-> ns[k].properties, node_type |-> ns[k].node_type] : k \in 1..Len(ns)}

ConnView(cs) ==
    {[collision_domain |-> cs[k].collision_domain, nodes |-> cs[k].nodes,
      connection_type |-> cs[k].connection_type] : k \in 1..Len(cs)}

\* The node declarations of the file ls, in line order
DeclsOf(ls) ==
    LET ds == SelectSeq(ls, IsNodeDecl)
    IN  [i \in 1..Len(ds) |-> Decl(ds[i])]

\* Declaration i of ds is the last one of its (node, property) key
LastOfKey(ds, i) ==
    \A j \in (i + 1)..Len(ds) :
        <<ds[j].node_name, ds[j].property_name>> # <<ds[i].node_name, ds[i].property_name>>

\* The value node n holds for the key of declaration d
Stored(n, d) ==
    IF d.property_name = ImageProp THEN {n.image}
    ELSE IF isdigit(d.property_name)
    THEN {n.interfaces[p] : p \in {d.property_name} \cap DOMAIN n.interfaces}
    ELSE {n.properties[p] : p \in {d.property_name} \cap DOMAIN n.properties}

\* The interface declarations of ds joining cd, in line order, as (node, interface)
JoinersOf(ds, cd) ==
    LET js == SelectSeq(ds, LAMBDA d : isdigit(d.property_name) /\ d.value = cd)
    IN  [i \in 1..Len(js) |-> <<js[i].node_name, js[i].property_name>>]

\* C8: swapping two adjacent node-property lines that assign different (node,
\* property) keys and do not join the same collision domain gives, after
\* parse(), the same image, interfaces, properties and type for every node and
\* the same member sequence and type for every connection; of two declarations
\* of one key the later value is stored; each member sequence is in declaration
\* order.
C8_OrderInsensitive ==
    pc = "returned" =>
        LET ds == DeclsOf(lines)
        IN  /\ \A k \in 1..Len(lines) :
                  Swappable(lines, k) =>
                      LET swapped == ParseFile(Swap(lines, k))
                      IN  /\ swapped.err = "none"
                          /\ NodeView(swapped.nodes) = NodeView(nodes)
                          /\ ConnView(swapped.connections) = ConnView(connections)
                          /\ swapped.lab_info = lab_info
            /\ \A i \in 1..Len(ds) :
                  LastOfKey(ds, i) =>
                      \E n \in 1..Len(nodes) :
                          /\ nodes[n].name = ds[i].node_name
                          /\ Stored(nodes[n], ds[i]) = {ds[i].value}
            /\ \A k \in 1..Len(connections) :
                  connections[k].nodes = JoinersOf(ds, connections[k].collision_domain)

\* A parsed file with a swappable pair of lines, one key declared twice with
\* different values, and a collision domain joined twice
C8_Witness ==
    /\ pc = "returned"
    /\ \E k \in 1..Len(lines) : Swappable(lines, k) /\ lines[k] # lines[k + 1]
    /\ LET ds == DeclsOf(lines)
       IN  \E i, j \in 1..Len(ds) :
               /\ i < j
               /\ ds[i].node_name = ds[j].node_name
               /\ ds[i].property_name = ds[j].property_name
               /\ ds[i].value # ds[j].value
    /\ \E k \in 1..Len(connections) : Len(connections[k].nodes) >= 2

\* C9: within parse(), _classify_nodes_and_connections is invoked exactly once,
\* only after every line has been consumed and before parse() returns; types
\* change only inside that invocation; every node is classified before any
\* connection is, so every connection's type is the one computed from the final
\* node types; no node is unknown once parse() has returned.
C9_ClassifyOnce ==
    /\ [](/\ calls <= 1
          /\ pc = "classify" => calls = 1 /\ idx = Len(lines)
          /\ Parsed =>
                /\ calls = 1
                /\ idx = Len(lines)
                /\ \A k \in 1..Len(nodes) : nodes[k].node_type # "unknown"
                /\ \A k \in 1..Len(connections) :
                      connections[k].connection_type =
                          classify_connection(
                              [connections[k] EXCEPT !.connection_type = "lan"],
                              nodes).connection_type)
    /\ [][calls' # calls => pc = "parse" /\ idx = Len(lines) /\ calls' = 1]_vars
    /\ [][(\/ \E k \in 1..Len(nodes) : nodes'[k].node_type # nodes[k].node_type
           \/ \E k \in 1..Len(connections) :
                 connections'[k].connection_type # connections[k].connection_type)
          => pc = "classify" /\ calls = 1]_vars
    /\ [][ClassifyConnection => \A k \in 1..Len(nodes) : nodes[k].node_type # "unknown"]_vars
    /\ [][ClassifyNode =>
             \A k \in 1..Len(connections) : connections[k].connection_type = "lan"]_vars

\* parse() has returned on a file whose hub is typed from its members' types
C9_Witness ==
    /\ pc = "returned"
    /\ calls = 1
    /\ Len(nodes) >= 3
    /\ \E k \in 1..Len(connections) : connections[k].connection_type = "ring"

\* The file holds no node and no lab line: it is empty or all blank and comment
EmptyInput == \A i \in 1..Len(lines) : Skipped(lines[i])

\* C10: on a file with no node and no lab line, parse() and generate() run to
\* the end without raising (the grid layout of zero nodes divides by nothing),
\* and the document is the header, the title with the default name and
\* description, an empty connections layer, an empty nodes layer, the legend
\* and the footer.
C10_EmptyInput ==
    EmptyInput =>
        /\ pc # "raised" /\ err = "none"
        /\ pc # "generated" => ENABLED Next
        /\ pc = "generated" =>
              /\ nodes = <<>> /\ connections = <<>>
              /\ layout = "grid"
              /\ svg = _create_svg_header
                       \o << El("comment", <<>>, "Title", "", <<>>),
                             El("text", DefaultLabName, "title", "", <<>>),
                             El("text", DefaultLabDesc, "subtitle", "", <<>>),
                             El("comment", <<>>, "Connections", "", <<>>),
                             El("comment", <<>>, "Nodes", "", <<>>) >>
                       \o _create_legend
                       \o _create_svg_footer

\* A file of blank and comment lines only has been turned into a document
C10_Witness ==
    /\ EmptyInput
    /\ Len(lines) > 0
    /\ pc = "generated"
    /\ svg # <<>>


\* C11: after parsing, interface mappings and member lists agree: (n, i) occurs
\* in the member list of connection cd iff node n maps interface i to cd, and
\* it occurs there at most once.
C11_InterfacesAgree ==
    Parsed =>
        /\ \A k \in 1..Len(connections) :
              LET cd      == connections[k].collision_domain
                  members == connections[k].nodes
              IN  /\ \A m \in 1..Len(members) :
                        \E n \in 1..Len(nodes) :
                            /\ nodes[n].name = members[m][1]
                            /\ members[m][2] \in DOMAIN nodes[n].interfaces
                            /\ nodes[n].interfaces[members[m][2]] = cd
                  /\ \A m1, m2 \in 1..Len(members) :
                        members[m1] = members[m2] => m1 = m2
        /\ \A n \in 1..Len(nodes) :
              \A i \in DOMAIN nodes[n].interfaces :
                  \E k \in 1..Len(connections) :
                      /\ connections[k].collision_domain = nodes[n].interfaces[i]
                      /\ \E m \in 1..Len(connections[k].nodes) :
                            connections[k].nodes[m] = <<nodes[n].name, i>>


====
